---- MODULE Spec2Model ----
(***************************************************************************)
(* A model of cluster-bob (src/src/main.rs): the batched readers           *)
(* batched_1d / batched_2d, the histogram passes construct_bows_one and    *)
(* construct_bows, and the two commands generate_vocabulary and            *)
(* generate_descriptors that run them and persist the result.              *)
(*                                                                         *)
(* External capabilities (HDF5 reads and writes, faiss clustering and      *)
(* nearest-centroid assignment) are modelled by their interface: a call    *)
(* either fails or returns a value drawn from the values its type allows.  *)
(* The contents of the item-index dataset and the labels returned by       *)
(* index.assign are revealed when the code reads / calls them.             *)
(*                                                                         *)
(* The source fixes batch_size = 1024 in both passes; every claim is       *)
(* parametric in the batch size, so the model draws batch_size from        *)
(* 1..MaxBatch to keep datasets of several batches small.                  *)
(***************************************************************************)
EXTENDS Integers, Sequences, FiniteSets, TLC

\* ------------------------------------------------------------------ bounds
\* rows of the feature dataset and of the item-index dataset
MaxRows == 3
\* batch sizes 1..MaxBatch (the source's 1024, scaled down)
MaxBatch == 2
\* rows of the codebook (index.ntotal() after the bulk insertion)
MaxK == 2
\* length of the item-name dataset (n_items)
MaxItems == 2
\* rows and batch sizes of the stand-alone batch reader specification
BatchMaxRows == 9
BatchMaxSize == 4

\* ----------------------------------------------------------------- helpers
Min(a, b) == IF a < b THEN a ELSE b

\* ndarray's Array1::zeros([k]) and Array2::zeros([n, k]), 0-based
Zeros1(k) == [j \in 0..(k - 1) |-> 0]
Zeros2(n, k) == [i \in 0..(n - 1) |-> Zeros1(k)]

\* sum of a function Nat -> Nat over the finite set S of its domain
RECURSIVE SumOver(_, _)
SumOver(f, S) ==
  IF S = {} THEN 0
  ELSE LET x == CHOOSE y \in S : TRUE IN f[x] + SumOver(f, S \ {x})

\* the values standing for "nothing here"
NoBatch == [begin |-> -1, end |-> -1]
NoBows == << >>
NoData == << >>
NoErr == [stage |-> "none", vol_id |-> -1, b |-> -1]
Failure(stage) == [stage |-> stage, vol_id |-> -1, b |-> -1]

\* ----------------------------------------------------------- batch readers
\* nbatches of batched_1d / batched_2d: total / batch_size, plus one for a
\* remainder (faulty variant: the extra batch always added)
NbatchesAlwaysExtra(total, B) == (total \div B) + 1
Nbatches(total, B) ==
  LET batch_offset == total % B
  IN (total \div B) + (IF batch_offset > 0 THEN 1 ELSE 0)

\* begin and end of chunk i: begin = i * batch_size,
\* end = usize::min(begin + batch_size, total) (faulty variant: end not clamped)
ChunkBegin(i, B) == i * B
ChunkEndUnclamped(i, B, total) == ChunkBegin(i, B) + B
ChunkEnd(i, B, total) == Min(ChunkBegin(i, B) + B, total)
Chunk(i, B, total) == [begin |-> ChunkBegin(i, B), end |-> ChunkEnd(i, B, total)]
ChunkLen(c) == c.end - c.begin

\* ------------------------------------------------------------------- state
VARIABLES
  args,            \* the parsed command line: cmd, single_item, size, n
  batch_size,      \* let batch_size = 1024 (scaled)
  features_total,  \* features_dset.shape()[0]
  id_slice_total,  \* id_slice_dset.shape()[0]
  id_item,         \* the item-name dataset of the features file
  codebook_k,      \* rows of the vocabulary file's "data"
  pc,              \* position of the run
  err,             \* the fatal error that ended the run, or NoErr
  index,           \* the FlatIndex: ntotal, bulk insertions, assign calls
  n_items,         \* n_items, peeked from the item-name dataset
  train_rows,      \* rows of the feature matrix loaded for clustering
  bows,            \* the histogram being accumulated
  it2d,            \* next chunk of the batched_2d iterator over features
  it1d,            \* next chunk of the batched_1d iterator over item ids
  feature_batch,   \* the chunk of features in hand: [begin, end)
  item_batch,      \* the chunk of item ids in hand
  nearest,         \* nearest.labels of the chunk in hand
  pos,             \* position of the inner loop over nearest.labels
  labels,          \* log of the pass: feature row -> label assign gave it
  ids_read,        \* log of the pass: item-index row -> value read for it
  chunks2d,        \* log: the chunks batched_2d yielded, in order
  chunks1d,        \* log: the chunks batched_1d yielded, in order
  folded,          \* log: number of batches whose inner loop completed
  out              \* the output file

vars == << args, batch_size, features_total, id_slice_total, id_item,
           codebook_k, pc, err, index, n_items, train_rows, bows, it2d, it1d,
           feature_batch, item_batch, nearest, pos, labels, ids_read,
           chunks2d, chunks1d, folded, out >>

inputs == << args, batch_size, features_total, id_slice_total, id_item,
             codebook_k >>
iters == << it2d, it1d, chunks2d, chunks1d >>
batch == << feature_batch, item_batch, nearest, pos >>
logs == << labels, ids_read, folded >>

\* the output file before the run touches it
NoOut == [opened |-> FALSE, datasets |-> {}, data |-> NoData,
          item_id |-> NoData, item_name |-> NoData]

\* the item-name datasets tried: n distinct names in descending order, or n
\* copies of one name (names are abstracted to codes)
ItemNames(n) == { [i \in 1..n |-> n + 1 - i], [i \in 1..n |-> 7] }

\* the labels index.assign may hand back for an index of k vectors: the
\* sentinel -1, a centroid id, or an id past the codebook
LabelValues(k) == (-1)..k
\* the values an item-index row may hold (u32) when the histogram has n rows:
\* a row of the histogram, or n for every value past its rows
ItemIdValues(n) == 0..n

QuantizeArgs == { [cmd |-> "quantize", single_item |-> s, size |-> 0, n |-> -1] :
                  s \in BOOLEAN }
VocabularyArgs == { [cmd |-> "vocabulary", single_item |-> FALSE, size |-> k, n |-> n] :
                    k \in 1..MaxK, n \in (-1)..MaxRows }

Fresh ==
  /\ pc = "start"
  /\ err = NoErr
  /\ index = [ntotal |-> 0, adds |-> 0, queries |-> 0]
  /\ n_items = 0
  /\ train_rows = 0
  /\ bows = NoBows
  /\ it2d = 0
  /\ it1d = 0
  /\ feature_batch = NoBatch
  /\ item_batch = << >>
  /\ nearest = << >>
  /\ pos = 1
  /\ labels = << >>
  /\ ids_read = << >>
  /\ chunks2d = << >>
  /\ chunks1d = << >>
  /\ folded = 0
  /\ out = NoOut

Init ==
  /\ \/ /\ args \in QuantizeArgs
        /\ batch_size \in 1..MaxBatch
        /\ features_total \in 0..MaxRows
        /\ id_slice_total \in (IF args.single_item THEN {0} ELSE 0..MaxRows)
        /\ \E n \in 0..MaxItems :
             id_item \in (IF args.single_item THEN {<< >>} ELSE ItemNames(n))
        /\ codebook_k \in 0..MaxK
     \/ /\ args \in VocabularyArgs
        /\ batch_size = 1
        /\ features_total \in 0..MaxRows
        /\ id_slice_total = 0
        /\ id_item = << >>
        /\ codebook_k = 0
  /\ Fresh


\* ------------------------------------------------------------ fatal errors
\* A `?` that propagates an Err out of main, or a panic: the process ends,
\* its memory is gone, and the output file stays as it was.
Abort(e) ==
  /\ pc' = "failed"
  /\ err' = e
  /\ index' = [ntotal |-> 0, adds |-> 0, queries |-> 0]
  /\ n_items' = 0
  /\ train_rows' = 0
  /\ bows' = NoBows
  /\ it2d' = 0
  /\ it1d' = 0
  /\ feature_batch' = NoBatch
  /\ item_batch' = << >>
  /\ nearest' = << >>
  /\ pos' = 1
  /\ labels' = << >>
  /\ ids_read' = << >>
  /\ chunks2d' = << >>
  /\ chunks1d' = << >>
  /\ folded' = 0
  /\ UNCHANGED << inputs, out >>

\* panic!("invalid BoW index ({}, {})", vol_id, b); vol_id is -1 in the
\* single-item pass, whose message names b alone
InvalidBowIndex(vol_id, b) == [stage |-> "invalid BoW index", vol_id |-> vol_id, b |-> b]

\* an output file just created by a "w" open: truncated, holding nothing
Truncated == [NoOut EXCEPT !.opened = TRUE]

\* -------------------------------------------------- generate_descriptors
\* (faulty variant) the output file is created before anything is computed
Q_ReadCodebookOpeningOut ==
  /\ pc = "start"
  /\ args.cmd = "quantize"
  /\ pc' = "q_index"
  /\ out' = Truncated
  /\ UNCHANGED << inputs, err, index, n_items, train_rows, bows, iters, batch,
                  logs >>

\* the codebook is read from the vocabulary file
Q_ReadCodebook ==
  /\ pc = "start"
  /\ args.cmd = "quantize"
  /\ \/ /\ pc' = "q_index"
        /\ UNCHANGED << inputs, err, index, n_items, train_rows, bows, iters,
                        batch, logs, out >>
     \/ Abort(Failure("read codebook"))

\* FlatIndex::new_l2(d) and the one bulk insertion index.add(codebook)
IndexAdd(ix, k) == [ix EXCEPT !.ntotal = ix.ntotal + k, !.adds = ix.adds + 1]

Q_IndexAdd ==
  /\ pc = "q_index"
  /\ \/ /\ index' = IndexAdd(index, codebook_k)
        /\ pc' = "q_open"
        /\ UNCHANGED << inputs, err, n_items, train_rows, bows, iters, batch,
                        logs, out >>
     \/ Abort(Failure("index add"))

\* the features file and its dataset are opened
Q_OpenFeatures ==
  /\ pc = "q_open"
  /\ \/ /\ pc' = IF args.single_item THEN "bows_one" ELSE "q_ids"
        /\ UNCHANGED << inputs, err, index, n_items, train_rows, bows, iters,
                        batch, logs, out >>
     \/ Abort(Failure("open features"))

\* the item-index dataset is opened and n_items peeked from the item names
Q_OpenIds ==
  /\ pc = "q_ids"
  /\ \/ /\ n_items' = Len(id_item)
        /\ pc' = "bows"
        /\ UNCHANGED << inputs, err, index, train_rows, bows, iters, batch,
                        logs, out >>
     \/ Abort(Failure("open item ids"))

\* ---------------------------------------------------- construct_bows_one
\* let mut bows = Array1::<u32>::zeros([index.ntotal()])
ConstructBowsOne_Init ==
  /\ pc = "bows_one"
  /\ bows' = Zeros1(index.ntotal)
  /\ pc' = "next2d"
  /\ UNCHANGED << inputs, err, index, n_items, train_rows, iters, batch, logs,
                  out >>

\* -------------------------------------------------------- construct_bows
\* let mut bows = Array2::<u32>::zeros([n_items, index.ntotal()])
ConstructBows_Init ==
  /\ pc = "bows"
  /\ bows' = Zeros2(n_items, index.ntotal)
  /\ pc' = "next2d"
  /\ UNCHANGED << inputs, err, index, n_items, train_rows, iters, batch, logs,
                  out >>

\* ---------------------------------------------- the loop of either pass
\* next() of batched_2d over the features: the next chunk is read, or the
\* iterator is exhausted and the for loop ends
Batched2dNext ==
  /\ pc = "next2d"
  /\ IF it2d < Nbatches(features_total, batch_size)
     THEN \/ /\ feature_batch' = Chunk(it2d, batch_size, features_total)
             /\ it2d' = it2d + 1
             /\ chunks2d' = Append(chunks2d, Chunk(it2d, batch_size, features_total))
             /\ pc' = IF args.single_item THEN "assign" ELSE "next1d"
             /\ UNCHANGED << inputs, err, index, n_items, train_rows, bows,
                             it1d, chunks1d, item_batch, nearest, pos, logs, out >>
          \/ Abort(Failure("read features"))
     ELSE /\ pc' = "returned"
          /\ UNCHANGED << inputs, err, index, n_items, train_rows, bows, iters,
                          batch, logs, out >>

\* the rows begin..end-1 of a chunk mapped to the values read for them
RowsOf(c, values) == [r \in c.begin..(c.end - 1) |-> values[r - c.begin + 1]]

\* next() of batched_1d over the item ids, called by zip once the features
\* gave a chunk: the next chunk is read, or zip ends the loop
Batched1dNext ==
  /\ pc = "next1d"
  /\ IF it1d < Nbatches(id_slice_total, batch_size)
     THEN \/ LET c == Chunk(it1d, batch_size, id_slice_total)
             IN \E values \in [1..ChunkLen(c) -> ItemIdValues(n_items)] :
                  /\ item_batch' = values
                  /\ ids_read' = RowsOf(c, values) @@ ids_read
                  /\ chunks1d' = Append(chunks1d, c)
                  /\ it1d' = it1d + 1
                  /\ pc' = "assign"
                  /\ UNCHANGED << inputs, err, index, n_items, train_rows, bows,
                                  it2d, chunks2d, feature_batch, nearest, pos,
                                  labels, folded, out >>
          \/ Abort(Failure("read item ids"))
     ELSE /\ pc' = "returned"
          /\ UNCHANGED << inputs, err, index, n_items, train_rows, bows, iters,
                          batch, logs, out >>

\* index.assign(feature_batch, 1)?: one label per row of the chunk
\* (faulty variant: the vocabulary is inserted again before every query)
IndexQueryReinit(ix) == [ix EXCEPT !.queries = ix.queries + 1, !.adds = ix.adds + 1]
IndexQuery(ix) == [ix EXCEPT !.queries = ix.queries + 1]

Assign ==
  /\ pc = "assign"
  /\ \/ \E ls \in [1..ChunkLen(feature_batch) -> LabelValues(index.ntotal)] :
          /\ nearest' = ls
          /\ labels' = RowsOf(feature_batch, ls) @@ labels
          /\ index' = IndexQuery(index)
          /\ pos' = 1
          /\ pc' = "fold"
          /\ UNCHANGED << inputs, err, n_items, train_rows, bows, iters,
                          feature_batch, item_batch, ids_read, folded, out >>
     \/ Abort(Failure("assign"))

\* if b >= 0 { ... += 1 }: which labels are counted
\* (faulty variants: b > 0, and no test at all)
CountedPositive(b) == b > 0
CountedAlways(b) == TRUE
Counted(b) == b >= 0

\* bows.get_mut([b]) of the single-item pass: is there such a cell
HasCell1(h, b) == b \in DOMAIN h
\* *cell += 1_u32
Incr1(h, b) == [h EXCEPT ![b] = @ + 1]

\* one turn of `for b in nearest.labels` in construct_bows_one
FoldOne ==
  /\ pc = "fold"
  /\ args.single_item
  /\ pos <= Len(nearest)
  /\ LET b == nearest[pos]
     IN IF Counted(b)
        THEN IF HasCell1(bows, b)
             THEN /\ bows' = Incr1(bows, b)
                  /\ pos' = pos + 1
                  /\ UNCHANGED << inputs, pc, err, index, n_items, train_rows,
                                  iters, feature_batch, item_batch, nearest,
                                  logs, out >>
             ELSE Abort(InvalidBowIndex(-1, b))
        ELSE /\ pos' = pos + 1
             /\ UNCHANGED << inputs, pc, err, index, n_items, train_rows, bows,
                             iters, feature_batch, item_batch, nearest, logs,
                             out >>

\* bows.get_mut((vol_id, b)) of the multi-item pass: is there such a cell
\* (faulty variant: the row is not checked, only the column)
HasCell2AnyRow(h, vol_id, b) == \E i \in DOMAIN h : b \in DOMAIN h[i]
HasCell2(h, vol_id, b) == vol_id \in DOMAIN h /\ b \in DOMAIN h[vol_id]
\* (faulty variant: every observation lands in row 0)
Incr2FirstRow(h, vol_id, b) == [h EXCEPT ![0][b] = @ + 1]
Incr2(h, vol_id, b) == [h EXCEPT ![vol_id][b] = @ + 1]

\* the pairs the inner zip of labels and item ids yields
ZipLen(a, b) == Min(Len(a), Len(b))

\* one turn of `for (b, vol_id) in zip(nearest.labels, item_batch)`
FoldPair ==
  /\ pc = "fold"
  /\ ~args.single_item
  /\ pos <= ZipLen(nearest, item_batch)
  /\ LET b == nearest[pos]
         vol_id == item_batch[pos]
     IN IF Counted(b)
        THEN IF HasCell2(bows, vol_id, b)
             THEN /\ bows' = Incr2(bows, vol_id, b)
                  /\ pos' = pos + 1
                  /\ UNCHANGED << inputs, pc, err, index, n_items, train_rows,
                                  iters, feature_batch, item_batch, nearest,
                                  logs, out >>
             ELSE Abort(InvalidBowIndex(vol_id, b))
        ELSE /\ pos' = pos + 1
             /\ UNCHANGED << inputs, pc, err, index, n_items, train_rows, bows,
                             iters, feature_batch, item_batch, nearest, logs,
                             out >>

\* the inner loop is over: tick_fn(b_size), and the for loop asks for the
\* next batch
Tick ==
  /\ pc = "fold"
  /\ pos > (IF args.single_item THEN Len(nearest) ELSE ZipLen(nearest, item_batch))
  /\ folded' = folded + 1
  /\ feature_batch' = NoBatch
  /\ item_batch' = << >>
  /\ nearest' = << >>
  /\ pos' = 1
  /\ pc' = "next2d"
  /\ UNCHANGED << inputs, err, index, n_items, train_rows, bows, iters, labels,
                  ids_read, out >>

\* ------------------------------------- generate_descriptors, persistence
\* bows.insert_axis(Axis(0)): the single histogram becomes a one-row matrix
InsertAxis0(h) == [i \in 0..0 |-> h]

\* Ok(bows) of the pass becomes `bows: Array2` of generate_descriptors; the
\* pass is over, and so is the log of what it read and was handed by assign
Q_Bows ==
  /\ pc = "returned"
  /\ bows' = IF args.single_item THEN InsertAxis0(bows) ELSE bows
  /\ pc' = "q_out"
  /\ labels' = << >>
  /\ ids_read' = << >>
  /\ UNCHANGED << inputs, err, index, n_items, train_rows, iters, batch,
                  folded, out >>

\* File::open(&args.out, "w"): the output file is created, truncated
Q_OpenOut ==
  /\ pc = "q_out"
  /\ \/ /\ out' = Truncated
        /\ pc' = "q_write_bows"
        /\ UNCHANGED << inputs, err, index, n_items, train_rows, bows, iters,
                        batch, logs >>
     \/ Abort(Failure("open out"))

\* the dataset "data" is created with bows.dim() and bows is written to it
Q_WriteBows ==
  /\ pc = "q_write_bows"
  /\ \/ /\ out' = [out EXCEPT !.datasets = @ \cup {"data"}, !.data = bows]
        /\ pc' = IF args.single_item THEN "done" ELSE "q_write_ids"
        /\ UNCHANGED << inputs, err, index, n_items, train_rows, bows, iters,
                        batch, logs >>
     \/ Abort(Failure("write bows"))

\* bows_dset.shape()[0]
Shape0(h) == Cardinality(DOMAIN h)
\* (0..n_items).collect::<Vec<_>>()
\* (faulty variant: the range starts at 1)
RangeFromOne(n) == [i \in 1..n |-> i]
Range(n) == [i \in 1..n |-> i - 1]

\* the sequential range is written under the item-index name
Q_WriteIds ==
  /\ pc = "q_write_ids"
  /\ \/ /\ out' = [out EXCEPT !.datasets = @ \cup {"item_id"},
                              !.item_id = Range(Shape0(out.data))]
        /\ pc' = "q_write_names"
        /\ UNCHANGED << inputs, err, index, n_items, train_rows, bows, iters,
                        batch, logs >>
     \/ Abort(Failure("write item ids"))

\* id_item_dset_in.read_raw(), then write_raw of what was read
Replicate(names) == names

\* the item names are read from the features file and written to the output
Q_WriteNames ==
  /\ pc = "q_write_names"
  /\ \/ /\ out' = [out EXCEPT !.datasets = @ \cup {"item_name"},
                              !.item_name = Replicate(id_item)]
        /\ pc' = "done"
        /\ UNCHANGED << inputs, err, index, n_items, train_rows, bows, iters,
                        batch, logs >>
     \/ Abort(Failure("replicate item names"))

\* --------------------------------------------------- generate_vocabulary
\* the features are loaded whole, or their first n rows (read_slice_2d fails
\* past the end of the dataset)
V_ReadFeatures ==
  /\ pc = "start"
  /\ args.cmd = "vocabulary"
  /\ \/ /\ args.n <= features_total
        /\ train_rows' = IF args.n >= 0 THEN args.n ELSE features_total
        /\ pc' = "v_train"
        /\ UNCHANGED << inputs, err, index, n_items, bows, iters, batch, logs,
                        out >>
     \/ Abort(Failure("read features"))

\* Clustering::new_with_params, FlatIndex::new_l2 and cluster.train, which
\* leaves the k centroids in the index
V_Train ==
  /\ pc = "v_train"
  /\ \/ /\ index' = IndexAdd(index, args.size)
        /\ pc' = "v_report"
        /\ UNCHANGED << inputs, err, n_items, train_rows, bows, iters, batch,
                        logs, out >>
     \/ Abort(Failure("train"))

\* cluster.objectives()? for the final loss that is printed
V_Report ==
  /\ pc = "v_report"
  /\ \/ /\ pc' = "v_out"
        /\ UNCHANGED << inputs, err, index, n_items, train_rows, bows, iters,
                        batch, logs, out >>
     \/ Abort(Failure("objectives"))

\* File::with_options().mode("w").open(&args.out)
V_OpenOut ==
  /\ pc = "v_out"
  /\ \/ /\ out' = Truncated
        /\ pc' = "v_write"
        /\ UNCHANGED << inputs, err, index, n_items, train_rows, bows, iters,
                        batch, logs >>
     \/ Abort(Failure("open out"))

\* index.xb() viewed as a (k, d) matrix: one row per centroid
Centroids(ix) == [i \in 0..(ix.ntotal - 1) |-> 1]

\* the dataset "data" of shape (k, d) is created and the centroids written
V_Write ==
  /\ pc = "v_write"
  /\ \/ /\ out' = [out EXCEPT !.datasets = @ \cup {"data"}, !.data = Centroids(index)]
        /\ pc' = "done"
        /\ UNCHANGED << inputs, err, index, n_items, train_rows, bows, iters,
                        batch, logs >>
     \/ Abort(Failure("write centroids"))

\* ------------------------------------------------------------------- spec
Next ==
  \/ Q_ReadCodebook
  \/ Q_IndexAdd
  \/ Q_OpenFeatures
  \/ Q_OpenIds
  \/ ConstructBowsOne_Init
  \/ ConstructBows_Init
  \/ Batched2dNext
  \/ Batched1dNext
  \/ Assign
  \/ FoldOne
  \/ FoldPair
  \/ Tick
  \/ Q_Bows
  \/ Q_OpenOut
  \/ Q_WriteBows
  \/ Q_WriteIds
  \/ Q_WriteNames
  \/ V_ReadFeatures
  \/ V_Train
  \/ V_Report
  \/ V_OpenOut
  \/ V_Write

Spec == Init /\ [][Next]_vars


\* ------------------------------------------- the batch readers on their own
\* batched_2d and batched_1d drained to the end over datasets of 0..BatchMaxRows
\* rows, with no consumer between two calls of next()
BatchArgs == [cmd |-> "batches", single_item |-> FALSE, size |-> 0, n |-> -1]

BatchInit ==
  /\ args = BatchArgs
  /\ batch_size \in 1..BatchMaxSize
  /\ features_total \in 0..BatchMaxRows
  /\ id_slice_total \in 0..BatchMaxRows
  /\ id_item = << >>
  /\ codebook_k = 0
  /\ Fresh

Drain2d ==
  /\ args.cmd = "batches"
  /\ it2d < Nbatches(features_total, batch_size)
  /\ chunks2d' = Append(chunks2d, Chunk(it2d, batch_size, features_total))
  /\ it2d' = it2d + 1
  /\ UNCHANGED << inputs, pc, err, index, n_items, train_rows, bows, it1d,
                  chunks1d, batch, logs, out >>

Drain1d ==
  /\ args.cmd = "batches"
  /\ it1d < Nbatches(id_slice_total, batch_size)
  /\ chunks1d' = Append(chunks1d, Chunk(it1d, batch_size, id_slice_total))
  /\ it1d' = it1d + 1
  /\ UNCHANGED << inputs, pc, err, index, n_items, train_rows, bows, it2d,
                  chunks2d, batch, logs, out >>

BatchNext == Drain2d \/ Drain1d

BatchSpec == BatchInit /\ [][BatchNext]_vars


\* ------------------------------------------------------------------ claims
\* where generate_descriptors stands once the pass has returned Ok(bows)
AfterPass == {"returned", "q_out", "q_write_bows", "q_write_ids",
              "q_write_names", "done"}
Multi == args.cmd = "quantize" /\ ~args.single_item
Single == args.cmd = "quantize" /\ args.single_item

\* a reader has given its last chunk
Exhausted2d == it2d = Nbatches(features_total, batch_size)
Exhausted1d == it1d = Nbatches(id_slice_total, batch_size)

\* the chunks `chunks` a reader over L rows has yielded so far are the first
\* row ranges of the partition of 0..L-1 into runs of B rows
Consecutive(chunks, L, B) ==
  /\ \A i \in 1..Len(chunks) :
       /\ chunks[i].begin = (i - 1) * B
       /\ chunks[i].end = Min(i * B, L)
       /\ ChunkLen(chunks[i]) >= 1
       /\ ChunkLen(chunks[i]) <= B
       /\ ChunkLen(chunks[i]) < B => (chunks[i].end = L /\ i = Len(chunks))
  /\ \A i \in 1..(Len(chunks) - 1) : chunks[i + 1].begin = chunks[i].end

\* the chunks of an exhausted reader cover 0..L-1: each row lies in exactly
\* one chunk and the lengths add up to L
Covers(chunks, L) ==
  /\ \A r \in 0..(L - 1) :
       Cardinality({i \in 1..Len(chunks) :
                      chunks[i].begin <= r /\ r < chunks[i].end}) = 1
  /\ SumOver([i \in 1..Len(chunks) |-> ChunkLen(chunks[i])], 1..Len(chunks)) = L
  /\ L = 0 => chunks = << >>

\* C1: for every row count L >= 0 and batch size B > 0 the chunks of
\* batched_2d and of batched_1d are the consecutive row ranges
\* [i*B, min((i+1)*B, L)): in row order, without overlap, skipped or
\* duplicated rows, each of 1..B rows, only the last one shorter than B, and
\* with lengths that add up to L once the reader is exhausted.
C1_BatchCoverage ==
  /\ Consecutive(chunks2d, features_total, batch_size)
  /\ Consecutive(chunks1d, id_slice_total, batch_size)
  /\ Exhausted2d => Covers(chunks2d, features_total)
  /\ Exhausted1d => Covers(chunks1d, id_slice_total)

\* both readers exhausted, each after several chunks, the last ones short
C1_Witness ==
  /\ args.cmd = "batches"
  /\ Exhausted2d /\ Exhausted1d
  /\ Len(chunks2d) >= 3 /\ Len(chunks1d) >= 2
  /\ ChunkLen(chunks2d[Len(chunks2d)]) < batch_size
  /\ ChunkLen(chunks1d[Len(chunks1d)]) < batch_size


\* the feature rows that have an item-index value: the rows both datasets hold
PairedRows == 0..(Min(features_total, id_slice_total) - 1)

\* the number of rows in S that are of item i and were assigned centroid j
CountOf(S, i, j) == Cardinality({r \in S : ids_read[r] = i /\ labels[r] = j})

\* C2: when construct_bows returns successfully, cell [i][j] of the
\* histogram is the number of feature rows whose item-index value is i and
\* whose assigned centroid id is j, for every item i in 0..n_items-1 and
\* every vocabulary entry j in 0..k-1; so row i sums to the number of
\* feature rows of item i with a non-sentinel centroid id.
C2_HistogramCells ==
  (Multi /\ pc = "returned") =>
    /\ PairedRows \subseteq (DOMAIN labels \cap DOMAIN ids_read)
    /\ DOMAIN bows = 0..(Len(id_item) - 1)
    /\ \A i \in DOMAIN bows :
         /\ DOMAIN bows[i] = 0..(codebook_k - 1)
         /\ \A j \in DOMAIN bows[i] : bows[i][j] = CountOf(PairedRows, i, j)
         /\ SumOver(bows[i], DOMAIN bows[i])
              = Cardinality({r \in PairedRows : ids_read[r] = i /\ labels[r] >= 0})

\* the pass returned a histogram with rows for two items, a cell counting two
\* feature rows, a cell of another item counting one
C2_Witness ==
  /\ Multi
  /\ pc = "returned"
  /\ \E i1, i2 \in DOMAIN bows :
       /\ i1 # i2
       /\ \E j1 \in DOMAIN bows[i1] : bows[i1][j1] = 2
       /\ \E j2 \in DOMAIN bows[i2] : bows[i2][j2] = 1

\* C3: when construct_bows_one returns successfully, cell j of the histogram
\* is the number of feature rows assigned centroid id j, and the cells sum to
\* the number of feature rows whose centroid id is not the sentinel.
C3_SingleHistogram ==
  (Single /\ pc = "returned") =>
    /\ DOMAIN labels = 0..(features_total - 1)
    /\ DOMAIN bows = 0..(codebook_k - 1)
    /\ \A j \in DOMAIN bows :
         bows[j] = Cardinality({r \in DOMAIN labels : labels[r] = j})
    /\ SumOver(bows, DOMAIN bows)
         = Cardinality({r \in DOMAIN labels : labels[r] >= 0})

\* the single-item pass returned over several batches, with a sentinel among
\* the labels and two cells written
C3_Witness ==
  /\ Single
  /\ pc = "returned"
  /\ Len(chunks2d) >= 2
  /\ \E r \in DOMAIN labels : labels[r] < 0
  /\ \E j1, j2 \in DOMAIN bows : j1 # j2 /\ bows[j1] >= 1 /\ bows[j2] >= 1

\* C4 (as claimed): in multi-item quantization, feature and item-index
\* datasets whose row counts give different chunk counts make the run fail:
\* construct_bows never returns a histogram.
C4_MismatchIsFatal ==
  (Multi /\ features_total > 0 /\ id_slice_total > 0
         /\ Nbatches(features_total, batch_size)
              # Nbatches(id_slice_total, batch_size))
    => pc \notin AfterPass

\* C5 (as claimed): every item-index value outside 0..n_items-1 that the pass
\* comes across aborts the run, so a pass that returned has seen none (stated
\* for datasets of equal length, where every value read is paired with a
\* feature row, and for a histogram that has cells).
C5_OutOfRangeItemIsFatal ==
  (Multi /\ pc = "returned" /\ features_total = id_slice_total
         /\ Len(id_item) >= 1 /\ codebook_k >= 1) =>
    \A r \in DOMAIN ids_read : ids_read[r] \in 0..(Len(id_item) - 1)

\* the inner loop of construct_bows stands at a pair whose item id is not a
\* row of the histogram
AtOutOfRangeItem ==
  /\ Multi
  /\ pc = "fold"
  /\ pos <= ZipLen(nearest, item_batch)
  /\ item_batch[pos] \notin 0..(n_items - 1)

\* C5 (amended): an item-index value outside 0..n_items-1 that is paired with
\* a non-sentinel centroid id aborts the run with the panic naming the index,
\* before the output file exists, and no cell is written for it; paired with
\* the sentinel it is skipped without an error and without a write.
C5_OutOfRangeItemCounted ==
  [][AtOutOfRangeItem =>
       IF nearest[pos] >= 0
       THEN /\ pc' = "failed"
            /\ err' = InvalidBowIndex(item_batch[pos], nearest[pos])
            /\ out = NoOut /\ out' = NoOut
       ELSE /\ pc' = "fold"
            /\ pos' = pos + 1
            /\ bows' = bows
            /\ err' = NoErr]_vars

\* the run was aborted for an item id past the histogram's rows, paired with
\* a centroid id of the codebook
C5_Witness ==
  /\ Multi
  /\ pc = "failed"
  /\ err.stage = "invalid BoW index"
  /\ err.vol_id >= Len(id_item)
  /\ err.b >= 0 /\ err.b < codebook_k
  /\ Len(id_item) >= 1

\* the inner loop of either pass stands at a sentinel label
AtSentinel ==
  /\ pc = "fold"
  /\ pos <= (IF args.single_item THEN Len(nearest) ELSE ZipLen(nearest, item_batch))
  /\ nearest[pos] < 0

\* C6: in both passes a sentinel (negative) centroid id is skipped: the step
\* that processes it leaves every histogram cell as it was, raises no error,
\* and the loop goes on with the next observation.
C6_SentinelSkipped ==
  [][AtSentinel =>
       /\ bows' = bows
       /\ pc' = "fold"
       /\ pos' = pos + 1
       /\ err' = NoErr
       /\ out' = out]_vars

\* a sentinel has just been passed over in the multi-item pass, with cells
\* already written, and the pass goes on
C6_Witness ==
  /\ Multi
  /\ pc = "fold"
  /\ pos > 1
  /\ nearest[pos - 1] < 0
  /\ \E i \in DOMAIN bows : \E j \in DOMAIN bows[i] : bows[i][j] >= 1

\* the errors of the streaming pass
PassErrors == {"read features", "read item ids", "assign", "invalid BoW index"}

\* C7: over a feature dataset of zero rows the batch reader gives no chunk,
\* index.assign is never called, and the pass returns a histogram of zeros
\* (k cells, or n_items rows of k cells) and no error.
C7_EmptyFeatures ==
  (args.cmd = "quantize" /\ features_total = 0) =>
    /\ chunks2d = << >>
    /\ index.queries = 0
    /\ pc # "assign" /\ pc # "fold" /\ pc # "next1d"
    /\ err.stage \notin PassErrors
    /\ (pc = "returned" /\ args.single_item) =>
         /\ DOMAIN bows = 0..(codebook_k - 1)
         /\ \A j \in DOMAIN bows : bows[j] = 0
    /\ (pc \in AfterPass /\ ~args.single_item) =>
         /\ DOMAIN bows = 0..(Len(id_item) - 1)
         /\ \A i \in DOMAIN bows :
              /\ DOMAIN bows[i] = 0..(codebook_k - 1)
              /\ \A j \in DOMAIN bows[i] : bows[i][j] = 0

\* the multi-item run over zero feature rows (and some item ids) is done,
\* its all-zero histogram of two rows and two columns written
C7_Witness ==
  /\ Multi
  /\ features_total = 0
  /\ id_slice_total > 0
  /\ pc = "done"
  /\ Len(id_item) = 2 /\ codebook_k = 2
  /\ "data" \in out.datasets
  /\ out.data = bows

\* the errors raised before the output file is opened: reading, assigning,
\* accumulating, training
ComputeErrors == PassErrors \cup {"read codebook", "index add", "open features",
                                   "open item ids", "train", "objectives"}
\* where a command stands once it has opened its output file
Persisting == {"q_write_bows", "q_write_ids", "q_write_names", "v_write", "done"}

\* C8: the output file is opened for writing only after the compute stage
\* has completed (the whole accumulation pass, the clustering call), so a
\* fatal error raised while reading, assigning, accumulating or training ends
\* the run with nothing written, complete or partial.
C8_OutputAfterCompute ==
  /\ (pc = "failed" /\ err.stage \in ComputeErrors) => out = NoOut
  /\ out # NoOut =>
       \/ /\ pc \in Persisting
          /\ index.adds = 1
          /\ args.cmd = "quantize" =>
               (Exhausted2d \/ (~args.single_item /\ Exhausted1d))
          /\ args.cmd = "quantize" => folded = index.queries
          /\ args.cmd = "vocabulary" => index.ntotal = args.size
       \/ /\ pc = "failed"
          /\ err.stage \notin ComputeErrors

\* a run aborted while accumulating, with no output file
C8_Witness ==
  /\ pc = "failed"
  /\ err.stage = "invalid BoW index"
  /\ out = NoOut

\* C9: after a successful multi-item quantization the item-index sequence of
\* the output is 0, 1, ..., n_items-1, one entry per histogram row, whatever
\* the input item-index dataset held, and the item names of the output are
\* those of the input; in single-item mode neither is written and the
\* histogram has exactly one row.
C9_OutputIndexAndNames ==
  (args.cmd = "quantize" /\ pc = "done") =>
    IF args.single_item
    THEN /\ out.datasets = {"data"}
         /\ DOMAIN out.data = {0}
    ELSE /\ out.datasets = {"data", "item_id", "item_name"}
         /\ Len(out.item_id) = Len(id_item)
         /\ Len(out.item_id) = Cardinality(DOMAIN out.data)
         /\ \A i \in 1..Len(out.item_id) : out.item_id[i] = i - 1
         /\ out.item_name = id_item

\* a multi-item run is done over two distinctly named items whose input
\* item-index values were not the sequence 0, 1, ...: every counted feature
\* row, and there are several, was of item 1
C9_Witness ==
  /\ Multi
  /\ pc = "done"
  /\ Len(id_item) = 2
  /\ id_item[1] # id_item[2]
  /\ features_total >= 2 /\ id_slice_total >= 2
  /\ \A j \in DOMAIN out.data[0] : out.data[0][j] = 0
  /\ SumOver(out.data[1], DOMAIN out.data[1]) >= 2

\* C10: in a quantization pass the stages never overlap: batch i is read
\* (features, then its item-index chunk), assigned and folded before batch
\* i+1 is read, and the index gets its one bulk insertion before the first
\* batch is read and is only queried afterwards.
C10_StrictPipeline ==
  args.cmd = "quantize" =>
    /\ index.adds <= 1
    /\ (it2d > 0 \/ it1d > 0 \/ index.queries > 0) => index.adds = 1
    /\ folded <= index.queries
    /\ index.queries <= it2d
    /\ it2d <= folded + 1
    /\ ~args.single_item =>
         /\ it1d <= it2d
         /\ it2d <= it1d + 1
         /\ index.queries <= it1d
    /\ pc \in {"assign", "fold"} => it2d = folded + 1
    /\ pc = "fold" => index.queries = it2d
    /\ pc \in {"next2d", "returned"} => folded = index.queries

\* the second batch of a multi-item pass is being folded, the first one done
C10_Witness ==
  /\ Multi
  /\ pc = "fold"
  /\ it2d = 2 /\ it1d = 2
  /\ folded = 1
  /\ index.queries = 2
  /\ index.adds = 1

====
